---------------------------- MODULE Spec2Model ----------------------------
(***************************************************************************)
(* ethdrain.py: a block range is cut into chunks, the chunks are mapped    *)
(* over a multiprocessing pool, each worker fetches the blocks of a chunk  *)
(* under an asyncio semaphore, normalises them with process_block and      *)
(* bulk-writes the chunk's actions to Elasticsearch.                       *)
(***************************************************************************)
EXTENDS Integers, Sequences, FiniteSets, TLC

VARIABLES
    block_list,      \* __main__: the block numbers to index
    CHUNK_SIZE,      \* module global, line 29 (a parameter of the run here)
    SEM_SIZE,        \* module global, line 27 (a parameter of the run here)
    rpc_may,         \* environment: the answers the RPC node may give, per block
    es_may_reject,   \* environment: the document keys Elasticsearch may reject
    mainpc,          \* __main__: "start", "chunked", "mapping", "done", "raised"
    chunks_arr,      \* __main__: list(chunks(block_list, CHUNK_SIZE))
    taskqueue,       \* Pool: the batches of chunk indices not yet taken
    number_left,     \* MapResult: batches whose result is still missing
    map_success,     \* MapResult: no batch has failed so far
    worker,          \* Pool: per worker process, the chunks of its batch left
    cpc,             \* setup_process, per chunk: its position
    runs,            \* per chunk: how many times setup_process was entered
    tpc,             \* run, per chunk and task: the position of sema_fetch
    got,             \* per chunk and task: the answer the fetch received
    sem,             \* run, per chunk: the value of asyncio.Semaphore
    session,         \* run, per chunk: the aiohttp.ClientSession
    out_actions,     \* setup_process, per chunk: the accumulated actions
    bulk_calls,      \* per chunk: the argument of every helpers.bulk call
    bulk_rejected,   \* per chunk: the keys the bulk call reported as failed
    store,           \* Elasticsearch: the committed documents
    printed,         \* stdout: what setup_process printed for the chunk
    error_log,       \* error_blocks.log: the block numbers logged
    posted,          \* per chunk and task: how many times fetch called session.post
    rawblock,        \* process_block alone: the dict handed to it, as it is now
    normalized       \* process_block alone: one record per call made on rawblock

vars == <<block_list, CHUNK_SIZE, SEM_SIZE, rpc_may, es_may_reject, mainpc,
          chunks_arr, taskqueue, number_left, map_success, worker, cpc, runs,
          tpc, got, sem, session, out_actions, bulk_calls, bulk_rejected,
          store, printed, error_log, posted, rawblock, normalized>>

(***************************************************************************)
(* Bounds of the model.                                                    *)
(***************************************************************************)
\* the longest block range of the pipeline specification
MaxBlocks == 3
\* the largest semaphore size
MaxSem == 2
\* the longest list handed to chunks() in the partitioning specification
MaxLen == 4

\* the most transactions of a block handed to process_block alone
MaxTx == 2
\* the number of values a transaction of such a block may carry above 15 wei
MaxValue == 2
\* the most calls of process_block made on one block object
MaxCalls == 2

\* the distinct block numbers of a list that names a block more than once
MaxNumbers == 2
\* the length of such a list
MaxRepeat == 2

\* mp.cpu_count() of the machine modelled
cpu_count == 1
POOL_SIZE == cpu_count + 2

TX_INDEX_NAME == "ethereum-transaction"
B_INDEX_NAME == "ethereum-block"

(***************************************************************************)
(* Python helpers.                                                         *)
(***************************************************************************)
\* range(start, stop, step), step /= 0, as a sequence
RECURSIVE range(_, _, _)
range(start, stop, step) ==
    IF (step > 0 /\ start >= stop) \/ (step < 0 /\ start <= stop)
    THEN <<>>
    ELSE <<start>> \o range(start + step, stop, step)

\* lst[i:j] for 0 <= i, on a sequence (Python indexes from 0)
slice(lst, i, j) ==
    LET hi == IF j < Len(lst) THEN j ELSE Len(lst)
    IN  IF i >= hi THEN <<>> ELSE SubSeq(lst, i + 1, hi)

\* chunks with slices one element short
chunks_short(lst, nb_chunks) ==
    LET starts == range(0, Len(lst), nb_chunks)
    IN  [k \in 1..Len(starts) |-> slice(lst, starts[k], starts[k] + nb_chunks - 1)]

\* def chunks(lst, nb_chunks), for nb_chunks /= 0: the list of what it yields
chunks(lst, nb_chunks) ==
    LET starts == range(0, Len(lst), nb_chunks)
    IN  [k \in 1..Len(starts) |-> slice(lst, starts[k], starts[k] + nb_chunks)]

\* the set of elements of a sequence
Elems(s) == {s[i] : i \in 1..Len(s)}

RECURSIVE Concat(_)
Concat(ss) == IF ss = <<>> THEN <<>> ELSE Head(ss) \o Concat(Tail(ss))

(***************************************************************************)
(* JSON values as the RPC node sends them: a number is a hex string, kept  *)
(* as its digits; a field the payload lacks is Missing.                    *)
(***************************************************************************)
Missing == [tag |-> "missing"]

RECURSIVE HexDigits(_)
HexDigits(n) == IF n < 16 THEN <<n>> ELSE Append(HexDigits(n \div 16), n % 16)

\* hex(n), as the node encodes a number
Hex(n) == [tag |-> "hex", digits |-> HexDigits(n)]

RECURSIVE HexValue(_)
HexValue(ds) ==
    IF ds = <<>> THEN 0 ELSE 16 * HexValue(SubSeq(ds, 1, Len(ds) - 1)) + ds[Len(ds)]

\* int(x, 0) on a field: KeyError when the payload lacks the field, TypeError
\* when it is no string (already an int), ValueError on a string without digits
py_int(x) ==
    IF x.tag = "missing" THEN [exc |-> "KeyError", val |-> 0]
    ELSE IF x.tag # "hex" THEN [exc |-> "TypeError", val |-> 0]
    ELSE IF x.digits = <<>> THEN [exc |-> "ValueError", val |-> 0]
    ELSE [exc |-> "none", val |-> HexValue(x.digits)]

IntVal(n) == [tag |-> "int", val |-> n]
\* datetime.datetime.fromtimestamp(n)
Datetime(n) == [tag |-> "datetime", epoch |-> n]
\* n / WEI_ETH_FACTOR, kept exactly as its numerator in wei
Ether(n) == [tag |-> "ether", wei |-> n]

(***************************************************************************)
(* The payloads of the model.  A raw block is the "result" object of the   *)
(* node's answer; a raw transaction is one element of its "transactions".  *)
(***************************************************************************)
\* the hash of the j-th transaction of block b
TxHash(b, j) == 2 * b + j

RawTx(b, j) ==
    [hash |-> TxHash(b, j), blockNumber |-> Hex(b), value |-> Hex(16 * b + j),
     blockTimestamp |-> Missing]

RawBlock(b, ntx) ==
    [tag |-> "object", number |-> Hex(b), timestamp |-> Hex(16 + b),
     gasLimit |-> Hex(32 + b), gasUsed |-> Hex(b), size |-> Hex(b + 1),
     transactions |-> [j \in 1..ntx |-> RawTx(b, j)],
     transactionCount |-> Missing, txValueSum |-> Missing]

Null == [tag |-> "null"]

\* the JSON documents of the model: a block without transactions, a block
\* with one, a block that lacks gasLimit, and a null result
Payload(b, kind) ==
    CASE kind = "ok0" -> [result |-> RawBlock(b, 0)]
      [] kind = "ok1" -> [result |-> RawBlock(b, 1)]
      [] kind = "nogas" -> [result |-> [RawBlock(b, 1) EXCEPT !.gasLimit = Missing]]
      [] kind = "null" -> [result |-> Null]

JsonKinds == {"ok0", "ok1", "nogas", "null"}
OkKinds == {"ok0", "ok1"}
BadKinds == JsonKinds \ OkKinds
Kinds == JsonKinds \cup {"neterr"}

(***************************************************************************)
(* def process_block(block, actions), lines 83-113.  The result holds the  *)
(* list actions as the call leaves it, the exception it raised ("none" when*)
(* it returned) and the block object as the call leaves it (the function   *)
(* rewrites its argument in place).                                        *)
(***************************************************************************)
\* lines 94-97: the conversions of one transaction
tx_convert(tx, block_timestamp) ==
    LET bn == py_int(tx.blockNumber)
        tx1 == [tx EXCEPT !.blockNumber = IntVal(bn.val),
                          !.blockTimestamp = block_timestamp]
        v == py_int(tx1.value)
    IN  IF bn.exc # "none" THEN [exc |-> bn.exc, tx |-> tx]
        ELSE IF v.exc # "none" THEN [exc |-> v.exc, tx |-> tx1]
        ELSE [exc |-> "none", tx |-> [tx1 EXCEPT !.value = Ether(v.val)]]

\* tx_loop with tx_value_sum = tx["value"] for tx_value_sum += tx["value"]
RECURSIVE tx_loop_assign(_, _, _)
tx_loop_assign(st, i, block_timestamp) ==
    IF i > Len(st.transactions) THEN st
    ELSE LET r == tx_convert(st.transactions[i], block_timestamp)
         IN  IF r.exc # "none"
             THEN [st EXCEPT !.exc = r.exc, !.transactions[i] = r.tx]
             ELSE tx_loop_assign(
                    [st EXCEPT
                       !.transactions[i] = r.tx,
                       !.tx_value_sum = r.tx.value.wei,
                       !.actions = Append(@, [_index |-> TX_INDEX_NAME, _type |-> "tx",
                                              _id |-> r.tx.hash, _source |-> r.tx]),
                       !.tx_hashes = Append(@, r.tx.hash)],
                    i + 1, block_timestamp)

\* lines 93-102: the loop over the transactions, from the i-th on
RECURSIVE tx_loop(_, _, _)
tx_loop(st, i, block_timestamp) ==
    IF i > Len(st.transactions) THEN st
    ELSE LET r == tx_convert(st.transactions[i], block_timestamp)
         IN  IF r.exc # "none"
             THEN [st EXCEPT !.exc = r.exc, !.transactions[i] = r.tx]
             ELSE tx_loop(
                    [st EXCEPT
                       !.transactions[i] = r.tx,
                       !.tx_value_sum = @ + r.tx.value.wei,
                       !.actions = Append(@, [_index |-> TX_INDEX_NAME, _type |-> "tx",
                                              _id |-> r.tx.hash, _source |-> r.tx]),
                       !.tx_hashes = Append(@, r.tx.hash)],
                    i + 1, block_timestamp)

process_block(resp, actions) ==
    LET block == resp.result
        fail(e, acts, blk) == [actions |-> acts, exc |-> e, block |-> blk]
    IN  IF block.tag = "null" THEN fail("TypeError", actions, block)
        ELSE
        LET block_nb == py_int(block.number)
            ts == py_int(block.timestamp)
            block_timestamp == Datetime(ts.val)
            st == tx_loop([transactions |-> block.transactions, tx_hashes |-> <<>>,
                           tx_value_sum |-> 0, actions |-> actions, exc |-> "none"],
                          1, block_timestamp)
            blk0 == [block EXCEPT !.transactions = st.transactions]
            blk1 == [block EXCEPT !.transactions = st.tx_hashes,
                                  !.number = IntVal(block_nb.val),
                                  !.timestamp = block_timestamp]
            gasLimit == py_int(block.gasLimit)
            blk2 == [blk1 EXCEPT !.gasLimit = IntVal(gasLimit.val)]
            gasUsed == py_int(block.gasUsed)
            blk3 == [blk2 EXCEPT !.gasUsed = IntVal(gasUsed.val)]
            size == py_int(block.size)
            blk4 == [blk3 EXCEPT !.size = IntVal(size.val),
                                 !.transactionCount = Len(st.tx_hashes),
                                 !.txValueSum = Ether(st.tx_value_sum)]
        IN  IF block_nb.exc # "none" THEN fail(block_nb.exc, actions, block)
            ELSE IF ts.exc # "none" THEN fail(ts.exc, actions, block)
            ELSE IF st.exc # "none" THEN fail(st.exc, st.actions, blk0)
            ELSE IF gasLimit.exc # "none" THEN fail(gasLimit.exc, st.actions, blk1)
            ELSE IF gasUsed.exc # "none" THEN fail(gasUsed.exc, st.actions, blk2)
            ELSE IF size.exc # "none" THEN fail(size.exc, st.actions, blk3)
            ELSE [actions |-> Append(st.actions,
                                     [_index |-> B_INDEX_NAME, _type |-> "b",
                                      _id |-> block_nb.val, _source |-> blk4]),
                  exc |-> "none", block |-> blk4]

(***************************************************************************)
(* Elasticsearch and the pool.                                             *)
(***************************************************************************)
\* the key a bulk action writes under
Key(act) == <<act._index, act._type, act._id>>

Keys(acts) == {Key(acts[i]) : i \in 1..Len(acts)}

\* every key the blocks 1..n of the model can produce
AllKeys(n) ==
    {<<B_INDEX_NAME, "b", b>> : b \in 1..n}
        \cup {<<TX_INDEX_NAME, "tx", TxHash(b, 1)>> : b \in 1..n}

\* es_bulk adding a document per action, whatever the store holds
es_bulk_append(docs, acts, rej) ==
    docs \cup {acts[j] : j \in {k \in 1..Len(acts) : Key(acts[k]) \notin rej}}

\* helpers.bulk on acts, the store rejecting the keys rej: the index actions
\* are applied in the order of the list, and an index action replaces the
\* document under its key, so that the last action under a key is what stays
es_bulk(docs, acts, rej) ==
    LET last == {j \in 1..Len(acts) :
                    /\ Key(acts[j]) \notin rej
                    /\ \A k \in (j + 1)..Len(acts) : Key(acts[k]) # Key(acts[j])}
        written == {acts[j] : j \in last}
    IN  {d \in docs : Key(d) \notin {Key(a) : a \in written}} \cup written

\* what a bulk call on these keys may report as failed: nothing, one
\* document, or all of them
RejectChoices(keys) == {{}} \cup {{k} : k \in keys} \cup {keys}

\* Pool._map_async: the chunksize of map(func, iterable) without chunksize
map_chunksize(len) ==
    IF len = 0 THEN 0
    ELSE (len \div (POOL_SIZE * 4)) + (IF len % (POOL_SIZE * 4) # 0 THEN 1 ELSE 0)

\* Pool._get_tasks: the batches of chunk indices
get_tasks(len) ==
    IF len = 0 THEN <<>> ELSE chunks([i \in 1..len |-> i], map_chunksize(len))

Workers == 1..POOL_SIZE
ChunkIds == 1..Len(chunks_arr)
\* the chunks handed to the pool
Mapped == DOMAIN cpc
Tasks(c) == 1..Len(chunks_arr[c])

\* the worker whose current chunk is c
WorkerOf(c) == CHOOSE w \in Workers : worker[w] # <<>> /\ Head(worker[w]) = c

(***************************************************************************)
(* The pipeline.                                                           *)
(***************************************************************************)
\* the state of the pipeline before __main__ runs line 176
StartMain(lst, chunk_size, sem_size, may, rejectable) ==
    /\ block_list = lst
    /\ CHUNK_SIZE = chunk_size
    /\ SEM_SIZE = sem_size
    /\ rpc_may = may
    /\ es_may_reject = rejectable
    /\ mainpc = "start"
    /\ chunks_arr = <<>>
    /\ taskqueue = <<>>
    /\ number_left = 0
    /\ map_success = TRUE
    /\ worker = [w \in Workers |-> <<>>]
    /\ cpc = <<>>
    /\ runs = <<>>
    /\ tpc = <<>>
    /\ got = <<>>
    /\ sem = <<>>
    /\ session = <<>>
    /\ out_actions = <<>>
    /\ bulk_calls = <<>>
    /\ bulk_rejected = <<>>
    /\ store = {}
    /\ printed = <<>>
    /\ error_log = {}
    /\ posted = <<>>

\* the state before __main__ runs line 176
Start(lst, chunk_size, sem_size, may, rejectable) ==
    /\ StartMain(lst, chunk_size, sem_size, may, rejectable)
    /\ rawblock = Null
    /\ normalized = <<>>

\* the chunk sizes of the pipeline specification
ChunkSizes == {MaxBlocks - 1, MaxBlocks}

Init ==
    \E n \in 0..MaxBlocks, chunk_size \in ChunkSizes, sem_size \in 1..MaxSem :
        Start([i \in 1..n |-> i], chunk_size, sem_size,
              [b \in 1..n |-> Kinds], AllKeys(n))

\* line 176: chunks_arr = list(chunks(block_list, CHUNK_SIZE)); range() raises
\* ValueError on a step of 0
MainChunks ==
    /\ mainpc = "start"
    /\ IF CHUNK_SIZE = 0
       THEN /\ mainpc' = "raised"
            /\ UNCHANGED chunks_arr
       ELSE /\ mainpc' = "chunked"
            /\ chunks_arr' = chunks(block_list, CHUNK_SIZE)
    /\ UNCHANGED <<posted, rawblock, normalized, block_list, CHUNK_SIZE, SEM_SIZE,
                   rpc_may, es_may_reject,
                   taskqueue, number_left, map_success, worker, cpc, runs, tpc,
                   got, sem, session, out_actions, bulk_calls, bulk_rejected,
                   store, printed, error_log>>

\* lines 182-183: POOL = mp.Pool(POOL_SIZE); POOL.map(setup_process, chunks_arr)
\* hands the batches to the pool
MainMap ==
    /\ mainpc = "chunked"
    /\ mainpc' = "mapping"
    /\ taskqueue' = get_tasks(Len(chunks_arr))
    /\ number_left' = Len(get_tasks(Len(chunks_arr)))
    /\ map_success' = TRUE
    /\ cpc' = [c \in ChunkIds |-> "queued"]
    /\ runs' = [c \in ChunkIds |-> 0]
    /\ tpc' = [c \in ChunkIds |-> [i \in Tasks(c) |-> "none"]]
    /\ got' = [c \in ChunkIds |-> [i \in Tasks(c) |-> "none"]]
    /\ sem' = [c \in ChunkIds |-> 0]
    /\ session' = [c \in ChunkIds |-> "none"]
    /\ out_actions' = [c \in ChunkIds |-> <<>>]
    /\ bulk_calls' = [c \in ChunkIds |-> <<>>]
    /\ bulk_rejected' = [c \in ChunkIds |-> {}]
    /\ printed' = [c \in ChunkIds |-> [kind |-> "nothing"]]
    /\ posted' = [c \in ChunkIds |-> [i \in Tasks(c) |-> 0]]
    /\ UNCHANGED <<rawblock, normalized, block_list, CHUNK_SIZE, SEM_SIZE,
                   rpc_may, es_may_reject,
                   chunks_arr, worker, store, error_log>>

\* lines 117-123 and 69-78: setup_process(chunks_arr[c]) starts, run() makes the
\* semaphore, opens the session and creates one task per block; c = 0: no chunk
Begin(f, c, v) == IF c = 0 THEN f ELSE [f EXCEPT ![c] = v]

BeginRuns(f, c) == IF c = 0 THEN f ELSE [f EXCEPT ![c] = @ + 1]

BeginTasks(f, c) ==
    IF c = 0 THEN f ELSE [f EXCEPT ![c] = [i \in Tasks(c) |-> "new"]]

\* a worker takes the next batch off the task queue and starts its first chunk
WorkerGet(w) ==
    /\ mainpc = "mapping"
    /\ worker[w] = <<>>
    /\ taskqueue # <<>>
    /\ worker' = [worker EXCEPT ![w] = Head(taskqueue)]
    /\ taskqueue' = Tail(taskqueue)
    /\ LET c == Head(Head(taskqueue))
       IN  /\ cpc' = Begin(cpc, c, "running")
           /\ runs' = BeginRuns(runs, c)
           /\ tpc' = BeginTasks(tpc, c)
           /\ sem' = Begin(sem, c, SEM_SIZE)
           /\ session' = Begin(session, c, "open")
           /\ out_actions' = Begin(out_actions, c, <<>>)
    /\ UNCHANGED <<posted, rawblock, normalized, block_list, CHUNK_SIZE, SEM_SIZE,
                   rpc_may, es_may_reject,
                   mainpc, chunks_arr, number_left, map_success, got,
                   bulk_calls, bulk_rejected, store, printed, error_log>>

\* sem_free admitting a task when no slot is left
sem_free_off_by_one(value) == value >= 0

\* asyncio.Semaphore.acquire goes on without waiting
sem_free(value) == value > 0

\* line 64, async with sem: the tasks take the slots in the order run() made
\* them; a task that finds no slot waits for a release.  With the slot the
\* task enters fetch, which posts the request (line 56)
Acquire(c, i) ==
    /\ cpc[c] = "running"
    /\ tpc[c][i] = "new"
    /\ \A j \in 1..(i - 1) : tpc[c][j] # "new"
    /\ sem_free(sem[c])
    /\ tpc' = [tpc EXCEPT ![c][i] = "inflight"]
    /\ sem' = [sem EXCEPT ![c] = @ - 1]
    /\ posted' = [posted EXCEPT ![c][i] = @ + 1]
    /\ UNCHANGED <<rawblock, normalized, block_list, CHUNK_SIZE, SEM_SIZE,
                   rpc_may, es_may_reject,
                   mainpc, chunks_arr, taskqueue, number_left, map_success,
                   worker, cpc, runs, got, session, out_actions, bulk_calls,
                   bulk_rejected, store, printed, error_log>>

\* asyncio.Semaphore.release wakes the task that waits first, and the event
\* loop runs that wake-up before the callbacks the end of the releasing task
\* schedules and before the answer of any other request: a free slot with a
\* task waiting is taken before anything else happens in the chunk
slot_waiter(c) == sem_free(sem[c]) /\ \E i \in Tasks(c) : tpc[c][i] = "new"

\* fetch without its except clause
fetch_catches_nothing(exc) == FALSE

\* fetch with an except clause for every exception
fetch_catches_all(exc) == exc # "none"

\* line 58: except (aiohttp.ClientError, asyncio.TimeoutError)
fetch_catches(exc) == exc \in {"ClientError", "TimeoutError"}

\* sem_exit keeping the slot when the body raised
sem_exit_leak(value, raised) == IF raised THEN value ELSE value + 1

\* line 64, the exit of async with sem: the slot is released, whether the
\* body returned or raised
sem_exit(value, raised) == value + 1

\* lines 54-65: the request of task i of chunk c is answered; fetch runs
\* process_fn on the answer or handles the network error, and sema_fetch
\* releases the slot
Fetch(c, i) ==
    /\ cpc[c] = "running"
    /\ tpc[c][i] = "inflight"
    /\ ~slot_waiter(c)
    /\ \E kind \in rpc_may[chunks_arr[c][i]] :
        LET block == chunks_arr[c][i]
            res == IF kind = "neterr"
                   THEN [actions |-> out_actions[c], exc |-> "ClientError"]
                   ELSE process_block(Payload(block, kind), out_actions[c])
            caught == fetch_catches(res.exc)
            raised == res.exc # "none" /\ ~caught
        IN  /\ got' = [got EXCEPT ![c][i] = kind]
            /\ out_actions' = [out_actions EXCEPT ![c] = res.actions]
            /\ error_log' = IF caught THEN error_log \cup {block} ELSE error_log
            /\ tpc' = [tpc EXCEPT ![c][i] = IF raised THEN "failed" ELSE "done"]
            /\ sem' = [sem EXCEPT ![c] = sem_exit(@, raised)]
    /\ UNCHANGED <<posted, rawblock, normalized, block_list, CHUNK_SIZE, SEM_SIZE,
                   rpc_may, es_may_reject,
                   mainpc, chunks_arr, taskqueue, number_left, map_success,
                   worker, cpc, runs, session, bulk_calls, bulk_rejected,
                   store, printed>>

\* gather returning with the first task that is done
gather_first(c) == \E i \in Tasks(c) : tpc[c][i] = "done"

\* line 80: asyncio.gather(*tasks) has its result once every task is done
gather_done(c) == \A i \in Tasks(c) : tpc[c][i] = "done"

\* lines 74-80 and 123: gather returns, the session is closed, run() returns
RunReturn(c) ==
    /\ cpc[c] = "running"
    /\ gather_done(c)
    /\ cpc' = [cpc EXCEPT ![c] = "gathered"]
    /\ session' = [session EXCEPT ![c] = "closed"]
    /\ UNCHANGED <<posted, rawblock, normalized, block_list, CHUNK_SIZE, SEM_SIZE,
                   rpc_may, es_may_reject,
                   mainpc, chunks_arr, taskqueue, number_left, map_success,
                   worker, runs, tpc, got, sem, out_actions, bulk_calls,
                   bulk_rejected, store, printed, error_log>>

\* mapstar: setup_process raised on chunk c of the batch of worker w; the rest
\* of the batch is not run and the batch's result is the exception
Raised(w, c) ==
    /\ cpc' = [x \in Mapped |->
                 IF x = c THEN "raised"
                 ELSE IF x \in Elems(Tail(worker[w])) THEN "skipped"
                 ELSE cpc[x]]
    /\ worker' = [worker EXCEPT ![w] = <<>>]
    /\ number_left' = number_left - 1
    /\ map_success' = FALSE

\* line 80: gather raises the exception of the first task that raised, the
\* session is closed, and the exception leaves run(), run_until_complete
\* (line 123) and setup_process; the tasks still pending are left behind
RunRaise(c) ==
    /\ cpc[c] = "running"
    /\ \E i \in Tasks(c) : tpc[c][i] = "failed"
    /\ ~slot_waiter(c)
    /\ Raised(WorkerOf(c), c)
    /\ session' = [session EXCEPT ![c] = "closed"]
    /\ UNCHANGED <<posted, rawblock, normalized, block_list, CHUNK_SIZE, SEM_SIZE,
                   rpc_may, es_may_reject,
                   mainpc, chunks_arr, taskqueue, runs, tpc, got, sem,
                   out_actions, bulk_calls, bulk_rejected, store, printed,
                   error_log>>

\* mapstar: setup_process returned on chunk c of the batch of worker w; the
\* worker starts the next chunk of the batch, or reports the batch's result
Returned(w, c) ==
    LET rest == Tail(worker[w])
        nxt == IF rest = <<>> THEN 0 ELSE Head(rest)
    IN  /\ cpc' = Begin([cpc EXCEPT ![c] = "returned"], nxt, "running")
        /\ worker' = [worker EXCEPT ![w] = rest]
        /\ number_left' = IF rest = <<>> THEN number_left - 1 ELSE number_left
        /\ UNCHANGED map_success
        /\ runs' = BeginRuns(runs, nxt)
        /\ tpc' = BeginTasks(tpc, nxt)
        /\ sem' = Begin(sem, nxt, SEM_SIZE)
        /\ session' = Begin(session, nxt, "open")
        /\ out_actions' = Begin(out_actions, nxt, <<>>)

Max(S) == CHOOSE x \in S : \A y \in S : y <= x

\* setup_process without the test of line 128
has_actions_always(blocks, txs) == TRUE

\* line 128: if blocks or txs
has_actions(blocks, txs) == blocks # <<>> \/ txs # <<>>

\* the handler of BulkIndexError logging nothing
bulk_error_logged_none(blocks) == {}

\* lines 136-137: the handler of BulkIndexError logs every block of the chunk
bulk_error_logged(blocks) == {blocks[i]._id : i \in 1..Len(blocks)}

\* summary printing the number of the first block action for the highest
summary_first(blocks, txs) ==
    [kind |-> "summary", number |-> blocks[1]._id,
     blocks |-> Len(blocks), txs |-> Len(txs)]

\* lines 131-133: the summary line of a chunk
summary(blocks, txs) ==
    [kind |-> "summary", number |-> Max({blocks[i]._id : i \in 1..Len(blocks)}),
     blocks |-> Len(blocks), txs |-> Len(txs)]

\* lines 125-137: the rest of setup_process, once run() has returned.
\* helpers.bulk raises BulkIndexError when the store rejected a document;
\* max() raises ValueError on an empty list
Commit(c) ==
    /\ cpc[c] = "gathered"
    /\ LET w == WorkerOf(c)
           blocks == SelectSeq(out_actions[c], LAMBDA act : act._type = "b")
           txs == SelectSeq(out_actions[c], LAMBDA act : act._type = "tx")
       IN  IF has_actions(blocks, txs)
           THEN \E rej \in RejectChoices(Keys(out_actions[c]) \cap es_may_reject) :
                /\ bulk_calls' = [bulk_calls EXCEPT ![c] = Append(@, out_actions[c])]
                /\ bulk_rejected' = [bulk_rejected EXCEPT ![c] = rej]
                /\ store' = es_bulk(store, out_actions[c], rej)
                /\ IF rej # {}
                   THEN /\ printed' = [printed EXCEPT
                                         ![c] = [kind |-> "issue", blocks |-> Len(blocks)]]
                        /\ error_log' = error_log \cup bulk_error_logged(blocks)
                        /\ Returned(w, c)
                   ELSE IF blocks = <<>>
                   THEN /\ Raised(w, c)
                        /\ UNCHANGED <<printed, error_log, runs, tpc, sem, session,
                                       out_actions>>
                   ELSE /\ printed' = [printed EXCEPT ![c] = summary(blocks, txs)]
                        /\ Returned(w, c)
                        /\ UNCHANGED error_log
           ELSE /\ Returned(w, c)
                /\ UNCHANGED <<bulk_calls, bulk_rejected, store, printed, error_log>>
    /\ UNCHANGED <<posted, rawblock, normalized, block_list, CHUNK_SIZE, SEM_SIZE,
                   rpc_may, es_may_reject,
                   mainpc, chunks_arr, taskqueue, got>>

\* line 183, MapResult: POOL.map has its result once every batch has
\* reported; it returns the results, or raises the first exception
MapReturn ==
    /\ mainpc = "mapping"
    /\ number_left = 0
    /\ mainpc' = IF map_success THEN "done" ELSE "raised"
    /\ UNCHANGED <<posted, rawblock, normalized, block_list, CHUNK_SIZE, SEM_SIZE,
                   rpc_may, es_may_reject,
                   chunks_arr, taskqueue, number_left, map_success, worker,
                   cpc, runs, tpc, got, sem, session, out_actions, bulk_calls,
                   bulk_rejected, store, printed, error_log>>

Next ==
    \/ MainChunks
    \/ MainMap
    \/ \E w \in Workers : WorkerGet(w)
    \/ \E c \in Mapped : \E i \in Tasks(c) : Acquire(c, i)
    \/ \E c \in Mapped : \E i \in Tasks(c) : Fetch(c, i)
    \/ \E c \in Mapped : RunReturn(c)
    \/ \E c \in Mapped : RunRaise(c)
    \/ \E c \in Mapped : Commit(c)
    \/ MapReturn

Spec == Init /\ [][Next]_vars

\* The pipeline under the scheduling the code relies on: the event loop runs
\* every callback that is ready, every request gets an answer, an error or a
\* timeout, an idle worker takes the next batch, and the main process reads
\* the results.  No step of the pipeline can be taken twice, so that a step
\* is taken as long as one is possible is all the fairness there is to state.
SpecLive == Init /\ [][Next]_vars /\ WF_vars(Next)

(***************************************************************************)
(* The partitioner alone: chunks() applied to every short list and every   *)
(* positive chunk size.                                                    *)
(***************************************************************************)
InitChunks ==
    \E n \in 0..MaxLen, chunk_size \in 1..MaxLen :
        \E lst \in [1..n -> 1..MaxBlocks] :
            Start(lst, chunk_size, 1, <<>>, {})

NextChunks == MainChunks

SpecChunks == InitChunks /\ [][NextChunks]_vars

(***************************************************************************)
(* __main__ with blocks to index and a chunk size that is 0 or negative:    *)
(* the partitioning and the map over what it yielded.                      *)
(***************************************************************************)
InitInvalid ==
    \E n \in 1..MaxLen, chunk_size \in (0 - MaxLen)..0 :
        \E lst \in [1..n -> 1..MaxBlocks] :
            Start(lst, chunk_size, 1, <<>>, {})

NextInvalid == MainChunks \/ MainMap \/ MapReturn

SpecInvalid == InitInvalid /\ [][NextInvalid]_vars

(***************************************************************************)
(* A run with more chunks than 4 * POOL_SIZE, the least for which Pool.map *)
(* puts two chunks in a batch: 4 * POOL_SIZE + 1 chunks of one block.  The *)
(* node answers block 1 with a null result and block 3 with a network      *)
(* error; block 5 holds a transaction, and the store may reject the        *)
(* documents of block 5.                                                   *)
(***************************************************************************)
PoolBlocks == 4 * POOL_SIZE + 1

PoolAnswers(b) ==
    CASE b = 1 -> {"null"}
      [] b = 3 -> {"neterr"}
      [] b = 5 -> {"ok1"}
      [] OTHER -> {"ok0"}

InitPool ==
    Start([i \in 1..PoolBlocks |-> i], 1, 1,
          [b \in 1..PoolBlocks |-> PoolAnswers(b)],
          {<<B_INDEX_NAME, "b", 5>>, <<TX_INDEX_NAME, "tx", TxHash(5, 1)>>})

SpecPool == InitPool /\ [][Next]_vars

(***************************************************************************)
(* A list of block numbers (the -f option, lines 165-168) that names a     *)
(* block more than once: the block is fetched, normalized and committed    *)
(* once per occurrence, in one chunk or in several.  The node answers with *)
(* a block, not always the same one, or with a null result.                *)
(***************************************************************************)
InitRerun ==
    \E n \in 1..MaxRepeat, chunk_size \in 1..MaxRepeat :
        \E lst \in [1..n -> 1..MaxNumbers] :
            Start(lst, chunk_size, 1,
                  [b \in 1..MaxNumbers |-> OkKinds \cup {"null"}],
                  AllKeys(MaxNumbers))

SpecRerun == InitRerun /\ [][Next]_vars

(***************************************************************************)
(* process_block alone: it is called on a block object, and called again   *)
(* on the object as the call before left it.  The blocks hold up to MaxTx  *)
(* transactions of every choice of values, and may lack "gasLimit".        *)
(***************************************************************************)
\* the values of the transactions, in wei: one and two hex digits
TxValues == {0} \cup 15..(14 + MaxValue)

\* the block b with one transaction per value of vals
NormBlock(b, vals, lacks_gas) ==
    [RawBlock(b, 0) EXCEPT
       !.transactions = [j \in 1..Len(vals) |-> [RawTx(b, j) EXCEPT !.value = Hex(vals[j])]],
       !.gasLimit = IF lacks_gas THEN Missing ELSE @]

InitNorm ==
    /\ StartMain(<<>>, 1, 1, <<>>, {})
    /\ normalized = <<>>
    /\ \E b \in 1..MaxBlocks, n \in 0..MaxTx, lacks_gas \in BOOLEAN :
         \E vals \in [1..n -> TxValues] :
             rawblock = NormBlock(b, vals, lacks_gas)

\* process_fn(response, actions) on the answer {"result": rawblock}, with a
\* new list of actions; the call rewrites the block object
Normalize ==
    /\ Len(normalized) < MaxCalls
    /\ LET res == process_block([result |-> rawblock], <<>>)
       IN  /\ normalized' = Append(normalized, [arg |-> rawblock,
                                                actions |-> res.actions,
                                                exc |-> res.exc])
           /\ rawblock' = res.block
    /\ UNCHANGED <<block_list, CHUNK_SIZE, SEM_SIZE, rpc_may, es_may_reject,
                   mainpc, chunks_arr, taskqueue, number_left, map_success,
                   worker, cpc, runs, tpc, got, sem, session, out_actions,
                   bulk_calls, bulk_rejected, store, printed, error_log, posted>>

NextNorm == Normalize

SpecNorm == InitNorm /\ [][NextNorm]_vars

(***************************************************************************)
(* Properties.                                                             *)
(***************************************************************************)
\* the tasks of chunk c that hold a slot: the request is out, the task not over
InFlight(c) == {i \in Tasks(c) : tpc[c][i] = "inflight"}

\* the tasks of chunk c are all over, returned or raised
AllOver(c) == \A i \in Tasks(c) : tpc[c][i] \in {"done", "failed"}

\* setup_process is over on chunk c
Ended(c) == cpc[c] \in {"returned", "raised"}

\* the actions process_block appends for task i of chunk c, given its answer
ActionsOf(c, i) ==
    Elems(process_block(Payload(chunks_arr[c][i], got[c][i]), <<>>).actions)

\* C1: within a chunk, the number of fetches that have issued their request
\* and are not over never exceeds the semaphore size, whatever the chunk size.
C1_InFlightBound ==
    \A c \in Mapped : Cardinality(InFlight(c)) <= SEM_SIZE

\* a chunk longer than the semaphore: every slot is held, a task is over and
\* another still waits for a slot
C1_Witness ==
    \E c \in Mapped :
        /\ Len(chunks_arr[c]) > SEM_SIZE
        /\ Cardinality(InFlight(c)) = SEM_SIZE
        /\ \E i \in Tasks(c) : tpc[c][i] = "new"
        /\ \E i \in Tasks(c) : tpc[c][i] = "done"

\* C2: when the fetch of a strict subset F of a chunk's blocks fails with a
\* network error and the other blocks are well formed, setup_process returns
\* without raising, its one bulk write holds the actions of every block not
\* in F, and every block of F is in the error log.
C2_FetchFaultIsolation ==
    \A c \in Mapped :
        ( /\ Ended(c)
          /\ \A i \in Tasks(c) : got[c][i] \in OkKinds \cup {"neterr"}
          /\ \E i \in Tasks(c) : got[c][i] \in OkKinds )
        => /\ cpc[c] = "returned"
           /\ Len(bulk_calls[c]) = 1
           /\ \A i \in Tasks(c) :
                IF got[c][i] = "neterr"
                THEN chunks_arr[c][i] \in error_log
                ELSE ActionsOf(c, i) \subseteq Elems(bulk_calls[c][1])

\* a chunk that is over, with a failed fetch and a fetched block with a
\* transaction
C2_Witness ==
    \E c \in Mapped :
        /\ cpc[c] = "returned"
        /\ \A i \in Tasks(c) : got[c][i] \in OkKinds \cup {"neterr"}
        /\ \E i \in Tasks(c) : got[c][i] = "neterr"
        /\ \E i \in Tasks(c) : got[c][i] = "ok1"

\* C3: a malformed payload affects its block alone: the chunk's processing
\* does not crash, the block is logged, and the actions of the well-formed
\* blocks of the chunk are bulk-written.
C3_NormalizationIsolated ==
    \A c \in Mapped :
        (Ended(c) /\ \E i \in Tasks(c) : got[c][i] \in BadKinds)
        => /\ cpc[c] = "returned"
           /\ \A i \in Tasks(c) :
                /\ got[c][i] \in BadKinds => chunks_arr[c][i] \in error_log
                /\ got[c][i] \in OkKinds =>
                     /\ bulk_calls[c] # <<>>
                     /\ ActionsOf(c, i) \subseteq Elems(bulk_calls[c][1])

\* C4: an error raised while a chunk is processed neither ends the run with
\* an error nor makes the pool skip another chunk.
C4_ChunkErrorContained ==
    /\ \A c \in Mapped : cpc[c] # "skipped"
    /\ mainpc # "raised"

\* the chunks that follow chunk c in its batch
BatchRest(c) ==
    LET batches == get_tasks(Len(chunks_arr))
        k == CHOOSE k \in 1..Len(batches) : c \in Elems(batches[k])
    IN  {x \in Elems(batches[k]) : x > c}

\* C5: when the bulk write of a chunk reports failed documents, setup_process
\* returns without raising, the block documents among the failed ones are in
\* the error log, the documents that did not fail are in the store, and the
\* worker goes on to the next chunk of its batch.
C5_BulkFailureHandled ==
    \A c \in Mapped :
        bulk_rejected[c] # {}
        => /\ cpc[c] = "returned"
           /\ \A key \in bulk_rejected[c] : key[2] = "b" => key[3] \in error_log
           /\ \A act \in Elems(bulk_calls[c][1]) :
                Key(act) \notin bulk_rejected[c] => act \in store
           /\ \A x \in BatchRest(c) : cpc[x] \notin {"queued", "skipped"}

\* a bulk write that failed for the transaction and not for the block, after
\* which the worker has run the next chunk of the batch to its end
C5_Witness ==
    \E c \in Mapped :
        /\ bulk_rejected[c] # {}
        /\ \E act \in Elems(bulk_calls[c][1]) : Key(act) \notin bulk_rejected[c]
        /\ \E x \in BatchRest(c) : cpc[x] = "returned"

\* a bulk write whose every document failed
C5_WitnessTotal ==
    \E c \in Mapped :
        /\ bulk_rejected[c] # {}
        /\ bulk_rejected[c] = Keys(bulk_calls[c][1])

C7_Partition ==
    mainpc = "chunked"
    => LET N == Len(block_list)
           C == CHUNK_SIZE
           n == Len(chunks_arr)
       IN  /\ n = (N + C - 1) \div C
           /\ \A k \in 1..(n - 1) : Len(chunks_arr[k]) = C
           /\ n > 0 => Len(chunks_arr[n]) = (IF N % C = 0 THEN C ELSE N % C)
           /\ \A k \in 1..n : chunks_arr[k] # <<>>
           /\ Concat(chunks_arr) = block_list

\* a list cut into several chunks, the last one short
C7_Witness ==
    /\ mainpc = "chunked"
    /\ Len(chunks_arr) >= 2
    /\ Len(block_list) % CHUNK_SIZE # 0
    /\ \E i, j \in 1..Len(block_list) : block_list[i] # block_list[j]

\* C8: the free slots and the slots held by the tasks in flight add up to the
\* semaphore size in every state, and every slot is free once the tasks of
\* the chunk are all over, whether they returned or raised.
C8_SlotsConserved ==
    \A c \in Mapped :
        cpc[c] \notin {"queued", "skipped"}
        => /\ sem[c] + Cardinality(InFlight(c)) = SEM_SIZE
           /\ AllOver(c) => sem[c] = SEM_SIZE

\* the tasks of a chunk are all over: one raised in process_block, one met a
\* network error
C8_Witness ==
    \E c \in Mapped :
        /\ AllOver(c)
        /\ \E i \in Tasks(c) : tpc[c][i] = "failed"
        /\ \E i \in Tasks(c) : got[c][i] = "neterr"
        /\ sem[c] = SEM_SIZE

\* C9: setup_process makes at most one bulk write per chunk, after every
\* fetch task of the chunk is done, and the write holds exactly the actions
\* of the blocks that were processed, each once, whatever the order in which
\* the fetches completed.
C9_SingleCommit ==
    \A c \in Mapped :
        /\ Len(bulk_calls[c]) <= 1
        /\ bulk_calls[c] # <<>>
           => /\ \A i \in Tasks(c) : tpc[c][i] = "done"
              /\ Elems(bulk_calls[c][1])
                   = UNION {ActionsOf(c, i) : i \in {j \in Tasks(c) : got[c][j] \in OkKinds}}
              /\ Len(bulk_calls[c][1]) = Cardinality(Elems(bulk_calls[c][1]))

\* a bulk write in which the action of a later block of the chunk precedes
\* the action of an earlier one
C9_Witness ==
    \E c \in Mapped :
        /\ bulk_calls[c] # <<>>
        /\ \E p, q \in 1..Len(bulk_calls[c][1]) :
             /\ p < q
             /\ bulk_calls[c][1][p]._type = "b"
             /\ bulk_calls[c][1][q]._type = "b"
             /\ bulk_calls[c][1][p]._id > bulk_calls[c][1][q]._id

\* C10: every chunk is run by a worker exactly once, none is skipped, and
\* POOL.map is over only after every chunk has been run to its end.
C10_EveryChunkOnce ==
    /\ \A c \in Mapped : runs[c] <= 1 /\ cpc[c] # "skipped"
    /\ mainpc \in {"done", "raised"} => \A c \in Mapped : runs[c] = 1 /\ Ended(c)

\* C11: once the processing of a chunk is over, every block number of the
\* chunk either has its block document in a bulk write that reported no
\* failure or is in the error log.
C11_ErrorAttributable ==
    \A c \in Mapped :
        Ended(c)
        => \A i \in Tasks(c) :
             \/ chunks_arr[c][i] \in error_log
             \/ /\ bulk_calls[c] # <<>>
                /\ bulk_rejected[c] = {}
                /\ \E act \in Elems(bulk_calls[c][1]) :
                     act._type = "b" /\ act._id = chunks_arr[c][i]

\* the sum of the values, in wei, of a list of transaction actions
RECURSIVE SumWei(_)
SumWei(txs) ==
    IF txs = <<>> THEN 0 ELSE Head(txs)._source.value.wei + SumWei(Tail(txs))

\* C12: for every block that process_block normalizes, the block action comes
\* last, after one transaction action per transaction of the block;
\* transactionCount is the length of the hash list and the number of
\* transaction actions; the hash list holds the hashes of the transactions
\* in their original order; txValueSum is the sum of the converted values of
\* the transactions; a block without transactions is normalized without
\* error, with 0, 0 and the empty list.
C12_Aggregates ==
    \A k \in 1..Len(normalized) :
        LET call == normalized[k]
            given == call.arg.transactions
            n == Len(call.actions)
            txs == SubSeq(call.actions, 1, n - 1)
            src == call.actions[n]._source
        IN  /\ call.exc = "none"
               => /\ n >= 1
                  /\ call.actions[n]._type = "b"
                  /\ \A j \in 1..(n - 1) : txs[j]._type = "tx"
                  /\ src.transactionCount = Len(src.transactions)
                  /\ src.transactionCount = n - 1
                  /\ src.transactions = [j \in 1..Len(given) |-> given[j].hash]
                  /\ \A j \in 1..(n - 1) :
                       /\ txs[j]._id = src.transactions[j]
                       /\ txs[j]._source.value = Ether(HexValue(given[j].value.digits))
                  /\ src.txValueSum = Ether(SumWei(txs))
            /\ (k = 1 /\ given = <<>> /\ call.arg.gasLimit # Missing)
               => /\ call.exc = "none"
                  /\ src.transactionCount = 0
                  /\ src.txValueSum = Ether(0)
                  /\ src.transactions = <<>>

\* a block normalized with two transactions of different values, neither 0
C12_Witness ==
    \E k \in 1..Len(normalized) :
        /\ normalized[k].exc = "none"
        /\ Len(normalized[k].actions) = 3
        /\ normalized[k].actions[1]._source.value.wei > 0
        /\ normalized[k].actions[2]._source.value.wei
             > normalized[k].actions[1]._source.value.wei

\* a block without transactions normalized
C12_WitnessEmpty ==
    \E k \in 1..Len(normalized) :
        /\ normalized[k].exc = "none"
        /\ Len(normalized[k].actions) = 1

C13_WitnessSameChunk ==
    \E c \in Mapped :
        /\ bulk_calls[c] # <<>> /\ bulk_rejected[c] = {}
        /\ \E p, q \in 1..Len(bulk_calls[c][1]) :
             p < q /\ Key(bulk_calls[c][1][p]) = Key(bulk_calls[c][1][q])

\* C14: with a chunk size of 0 or less the run fails with an error at the
\* partitioning, before a chunk is handed to the pool: it never goes on with
\* an empty or partial list of chunks.
C14_InvalidChunkSizeFails ==
    CHUNK_SIZE <= 0 => mainpc \in {"start", "raised"}

\* C15: process_block called twice on the same block gives the same result:
\* the second call ends as the first did, with the same actions, and finds
\* the block as the first call found it.
C15_Deterministic ==
    Len(normalized) >= 2
    => /\ normalized[2].exc = normalized[1].exc
       /\ normalized[2].actions = normalized[1].actions
       /\ normalized[2].arg = normalized[1].arg

\* the block documents and the transaction documents the store holds for the
\* blocks of chunk c
BlockDocs(c) == {d \in store : d._type = "b" /\ d._id \in Elems(chunks_arr[c])}

TxDocs(c) ==
    {d \in store : d._type = "tx" /\ d._source.blockNumber.val \in Elems(chunks_arr[c])}

\* the summary of chunk c counts what the chunk committed
SummaryExact(c) ==
    /\ printed[c].kind = "summary"
    /\ printed[c].blocks = Cardinality(BlockDocs(c))
    /\ printed[c].txs = Cardinality(TxDocs(c))
    /\ BlockDocs(c) # {}
    /\ printed[c].number = Max({d._id : d \in BlockDocs(c)})

AllFinished ==
    /\ mainpc \in {"done", "raised"}
    /\ \A c \in Mapped : Ended(c) /\ AllOver(c)

\* C17: every fetch task of every chunk eventually takes a slot and comes to
\* its end, also when the chunk is longer than the semaphore; run() and
\* setup_process eventually end for every chunk, and so does the run.
C17_Progress == <>AllFinished

\* C18: a chunk has one session, open before the first of its fetch tasks
\* asks for a slot, and closed only after every fetch task of the chunk has
\* come to its end: in no state is a task waiting or in flight while the
\* session of its chunk is closed.
C18_SessionLifetime ==
    \A c \in Mapped :
        /\ runs[c] <= 1
        /\ (\E i \in Tasks(c) : tpc[c][i] # "none") => session[c] # "none"
        /\ session[c] = "closed" => AllOver(c)

\* C19: while a chunk is processed exactly one request is posted for each of
\* its blocks: never a second one, whether the first failed or not, and one
\* for every block by the time the processing of the chunk is over; and a
\* block has at most one block action in the list of the chunk.
C19_OneRequestPerBlock ==
    \A c \in Mapped :
        /\ \A i \in Tasks(c) : posted[c][i] <= 1
        /\ Ended(c) => \A i \in Tasks(c) : posted[c][i] = 1
        /\ \A i \in Tasks(c) :
             Cardinality({p \in 1..Len(out_actions[c]) :
                            /\ out_actions[c][p]._type = "b"
                            /\ out_actions[c][p]._id = chunks_arr[c][i]}) <= 1

\* C20: every list of actions handed to helpers.bulk is closed under the
\* relation of a block to its transactions: a transaction action of the list
\* has the block action of its block in the list, which names its hash, and
\* every hash a block action of the list names has its transaction action
\* in the list.
C20_BatchClosed ==
    \A c \in Mapped :
        \A k \in 1..Len(bulk_calls[c]) :
            LET acts == bulk_calls[c][k]
                txs == {a \in Elems(acts) : a._type = "tx"}
                blocks == {a \in Elems(acts) : a._type = "b"}
            IN  /\ \A t \in txs :
                     \E b \in blocks :
                         /\ b._id = t._source.blockNumber.val
                         /\ t._id \in Elems(b._source.transactions)
                /\ \A b \in blocks :
                     \A h \in Elems(b._source.transactions) :
                         \E t \in txs : t._id = h

\* a bulk write of a chunk in which a fetch failed, holding a block with its
\* transaction
C20_Witness ==
    \E c \in Mapped :
        /\ bulk_calls[c] # <<>>
        /\ \E a \in Elems(bulk_calls[c][1]) : a._type = "tx"
        /\ \E i \in Tasks(c) : got[c][i] = "neterr"

\* a chunk whose list held a transaction action without its block action,
\* and whose processing is over
C20_WitnessOrphan ==
    \E c \in Mapped :
        /\ Ended(c)
        /\ \E t \in Elems(out_actions[c]) :
             /\ t._type = "tx"
             /\ \A b \in Elems(out_actions[c]) :
                  b._type = "b" => b._id # t._source.blockNumber.val

=============================================================================
